---- MODULE Spec2Model ----
(***************************************************************************)
(* wsrpc client: the connectivity state machine (addrConn) and the call    *)
(* multiplexer (ClientConn) of src/client.go.                              *)
(*                                                                         *)
(* Every goroutine is a task with a program counter.  A section of code    *)
(* that runs under ac.mu is one atomic step; when the section publishes a  *)
(* state on the unbuffered channel stateCh (updateConnectivityState), the  *)
(* step can only complete at the moment listenForRead receives, so the     *)
(* step is guarded by the listener being at its receive.  cc.mu is held    *)
(* across a blocking channel send by handleMessageResponse and is          *)
(* therefore an explicit variable.                                         *)
(***************************************************************************)
EXTENDS Integers, Sequences, FiniteSets, TLC

(* ------------------------------ bounds -------------------------------- *)
MaxTransports == 2
MaxBackoffStep == 2
NumClosers == 2
MaxConnectCalls == 2
NumCallers == 2
MaxCalls == 2
MaxQueued == 1

Transports == 1..MaxTransports
Loops == 1..MaxConnectCalls
Closers == 1..NumClosers
HandleReads == 1..MaxTransports
Callers == 1..NumCallers
CallIds == 1..MaxCalls

NoTransport == 0
NoHolder == 0
NoChan == 0

(* connectivity.State *)
Idle == "Idle"
Connecting == "Connecting"
Ready == "Ready"
TransientFailure == "TransientFailure"
Shutdown == "Shutdown"
States == {Idle, Connecting, Ready, TransientFailure, Shutdown}

VARIABLES
    state,        \* ac.state
    transport,    \* ac.transport: NoTransport is nil
    cancelled,    \* ac.ctx has been cancelled
    bs,           \* ac.dopts.bs: how many delays the strategy has handed out since Reset
    loopPc,       \* position of each resetTransport goroutine
    backoffFor,   \* resetTransport's local backoffFor
    newTr,        \* resetTransport's local newTr (and its reconnect event)
    nLoops,       \* number of resetTransport goroutines started
    trState,      \* each transport: "none", "open", "closed" (onClose pending), "done" (onClose ran)
    lfr,          \* listenForRead: "recv" at the receive, else the state s it received
    hrPc,         \* position of each handleRead goroutine
    nHandleReads, \* number of handleRead goroutines started
    ccConn,       \* cc.conn is non-nil
    dialed,       \* Dial has returned the handle
    crashed,      \* a goroutine panicked (nil dereference): the process is gone
    clPc,         \* position of each Close caller
    clConn,       \* Close's local conn is non-nil
    nConnect,     \* number of connect() calls made so far
    connectErr,   \* what the last connect() returned
    readySince,   \* history: a dial has succeeded since the last backoff wait began
    ccMu,         \* cc.mu: NoHolder, or the handleRead goroutine blocked in its send
    methodCalls,  \* cc.methodCalls: call id -> channel (a channel is named by the call that made it)
    nextCall,     \* number of call ids generated so far
    written,      \* the call ids whose Request frame reached the peer
    inbound,      \* per transport: the Response frames waiting on Read(), by call_id
    hrTr,         \* handleRead: the transport whose Read() channel gave the frame in hand
    hrMsg,        \* handleRead: call_id of the Response in hand
    ivPc,         \* position of each Invoke caller; "returned" until the caller takes the result
    ivCall,       \* Invoke's local callID (and its wait channel)
    ivTr,         \* the transport Invoke wrote its Request frame to, while it waits
    ivResult,     \* what Invoke returned
    ivReply       \* the payload Invoke received (a payload is tagged with its frame's call_id)

vars == <<state, transport, cancelled, bs, loopPc, backoffFor, newTr, nLoops,
          trState, lfr, hrPc, nHandleReads, ccConn, dialed, crashed, clPc,
          clConn, nConnect, connectErr, readySince, ccMu, methodCalls, nextCall,
          written, inbound, hrTr, hrMsg, ivPc, ivCall, ivTr, ivResult, ivReply>>

callVars == <<ccMu, methodCalls, nextCall, written, inbound, hrTr, hrMsg,
              ivPc, ivCall, ivTr, ivResult, ivReply>>
connVars == <<state, transport, cancelled, bs, loopPc, backoffFor, newTr, nLoops,
              trState, lfr, nHandleReads, dialed, clPc, clConn, nConnect,
              connectErr, readySince>>

(* --------------------------- backoff strategy ------------------------- *)
(* An exponential strategy: the n-th delay after a Reset is                *)
(* InitialDelay * 2^n, capped after MaxBackoffStep doublings.              *)
InitialDelay == 1

RECURSIVE Pow2(_)
Pow2(n) ==
    IF n = 0 THEN 1 ELSE 2 * Pow2(n - 1)

Delay(b) ==
    InitialDelay * Pow2(b)

NextBackOff(b) ==
    IF b < MaxBackoffStep THEN b + 1 ELSE b

Reset(b) ==
    0

(* ------------------------ updateConnectivityState --------------------- *)
(* The send on stateCh blocks, with ac.mu held, until listenForRead        *)
(* receives; nothing is sent when the state does not change.               *)
CanUpdate(s) ==
    (state # s) => (lfr = "recv")

UpdateConnectivityState(s) ==
    /\ CanUpdate(s)
    /\ state' = s
    /\ lfr' = IF state # s THEN s ELSE lfr

(* ------------------------------ transports ---------------------------- *)
(* Close on a transport: the connection goes down; its onClose callback    *)
(* runs later, on the transport's own goroutine.                           *)
CloseTransport(ts, t) ==
    [ts EXCEPT ![t] = IF @ = "open" THEN "closed" ELSE @]

NumCreated ==
    Cardinality({t \in Transports : trState[t] # "none"})

(* The peer drops the connection, or the transport fails.                  *)
PeerDrop(t) ==
    /\ ~crashed
    /\ trState[t] = "open"
    /\ trState' = [trState EXCEPT ![t] = "closed"]
    /\ UNCHANGED <<state, transport, cancelled, bs, loopPc, backoffFor, newTr,
                   nLoops, lfr, hrPc, nHandleReads, ccConn, dialed, crashed,
                   clPc, clConn, nConnect, connectErr, readySince>>
    /\ UNCHANGED callVars

(* Mutant: onClose without the test of ac.state.                           *)
OnCloseStateUnchecked(st) ==
    Idle

(* The state onClose leaves the connection in (inside once.Do).            *)
OnCloseState(st) ==
    IF st = Ready THEN Idle ELSE st

(* onClose of createTransport, then reconnect.Fire().                      *)
OnClose(t) ==
    /\ ~crashed
    /\ trState[t] = "closed"
    /\ UpdateConnectivityState(OnCloseState(state))
    /\ trState' = [trState EXCEPT ![t] = "done"]
    /\ UNCHANGED <<transport, cancelled, bs, loopPc, backoffFor, newTr, nLoops,
                   hrPc, nHandleReads, ccConn, dialed, crashed, clPc, clConn,
                   nConnect, connectErr, readySince>>
    /\ UNCHANGED callVars

(* ------------------------------- connect ------------------------------ *)
(* Mutant: connect() without the test for Idle.                            *)
ConnectStartsAlways(st) ==
    TRUE

(* Whether connect() goes on to start the retry loop.                      *)
ConnectStarts(st) ==
    st = Idle

(* The body of addrConn.connect().                                         *)
Connect ==
    /\ ~crashed
    /\ nConnect < MaxConnectCalls
    /\ nConnect' = nConnect + 1
    /\ IF state = Shutdown
       THEN /\ connectErr' = "errConnClosing"
            /\ UNCHANGED <<state, lfr, loopPc, nLoops>>
       ELSE IF ~ConnectStarts(state)
       THEN /\ connectErr' = "nil"
            /\ UNCHANGED <<state, lfr, loopPc, nLoops>>
       ELSE /\ UpdateConnectivityState(Connecting)
            /\ nLoops' = nLoops + 1
            /\ loopPc' = [loopPc EXCEPT ![nLoops + 1] = "top"]
            /\ connectErr' = "nil"
    /\ UNCHANGED <<transport, cancelled, bs, backoffFor, newTr, trState, hrPc,
                   nHandleReads, ccConn, crashed, clPc, clConn, readySince>>
    /\ UNCHANGED callVars

(* Dial: newAddrConn has run (Init); connect, then the handle is returned. *)
DialConnect ==
    /\ ~dialed
    /\ Connect
    /\ dialed' = TRUE

(* A further call of connect() on the same addrConn.                       *)
ConnectAgain ==
    /\ dialed
    /\ Connect
    /\ UNCHANGED dialed

(* ---------------------------- resetTransport -------------------------- *)
(* Mutant: the loop does not announce the new attempt.                     *)
IterationStateKept(st) ==
    st

(* The state at the start of a dial attempt: line 314.                     *)
IterationState(st) ==
    Connecting

(* Mutant: the loop goes on after teardown.                                *)
IterationNeverStops(st) ==
    FALSE

(* Whether the loop returns at the top of an iteration: line 303.          *)
IterationStops(st) ==
    st = Shutdown

(* One turn of the loop up to the dial: lines 302-315.                     *)
LoopIteration(l) ==
    /\ ~crashed
    /\ IF IterationStops(state)
       THEN /\ loopPc' = [loopPc EXCEPT ![l] = "exit"]
            /\ backoffFor' = [backoffFor EXCEPT ![l] = 0]
            /\ UNCHANGED <<state, lfr, transport, bs>>
       ELSE /\ backoffFor' = [backoffFor EXCEPT ![l] = Delay(bs)]
            /\ bs' = NextBackOff(bs)
            /\ transport' = NoTransport
            /\ UpdateConnectivityState(IterationState(state))
            /\ loopPc' = [loopPc EXCEPT ![l] = "dial"]
    /\ newTr' = [newTr EXCEPT ![l] = NoTransport]
    /\ UNCHANGED <<cancelled, nLoops, trState, hrPc, nHandleReads, ccConn,
                   dialed, crashed, clPc, clConn, nConnect, connectErr,
                   readySince>>
    /\ UNCHANGED callVars

(* The goroutine started by connect() enters the loop.                     *)
LoopStart(l) ==
    /\ loopPc[l] = "top"
    /\ LoopIteration(l)

(* The backoff timer fires (line 334) and the loop goes round.             *)
LoopRetry(l) ==
    /\ loopPc[l] = "backoff"
    /\ LoopIteration(l)

(* <-reconnect.Done() returns (line 360) and the loop goes round.          *)
LoopReconnect(l) ==
    /\ loopPc[l] = "wait"
    /\ trState[newTr[l]] = "done"
    /\ LoopIteration(l)

(* createTransport returns a transport: NewWebsocketClient succeeded.      *)
CreateTransportOk(l) ==
    /\ ~crashed
    /\ loopPc[l] = "dial"
    /\ NumCreated < MaxTransports
    /\ newTr' = [newTr EXCEPT ![l] = NumCreated + 1]
    /\ trState' = [trState EXCEPT ![NumCreated + 1] = "open"]
    /\ loopPc' = [loopPc EXCEPT ![l] = "created"]
    /\ UNCHANGED <<state, transport, cancelled, bs, backoffFor, nLoops, lfr,
                   hrPc, nHandleReads, ccConn, dialed, crashed, clPc, clConn,
                   nConnect, connectErr, readySince>>
    /\ UNCHANGED callVars

(* Mutant: a failed dial leaves the state as it is.                        *)
DialFailedStateKept(st) ==
    st

(* The state a failed dial puts the connection in: line 327.               *)
DialFailedState(st) ==
    TransientFailure

(* createTransport returns an error: lines 318-331, up to the wait.        *)
LoopDialFailed(l) ==
    /\ ~crashed
    /\ loopPc[l] = "dial"
    /\ IF state = Shutdown
       THEN /\ loopPc' = [loopPc EXCEPT ![l] = "exit"]
            /\ backoffFor' = [backoffFor EXCEPT ![l] = 0]
            /\ UNCHANGED <<state, lfr, readySince>>
       ELSE /\ UpdateConnectivityState(DialFailedState(state))
            /\ loopPc' = [loopPc EXCEPT ![l] = "backoff"]
            /\ readySince' = FALSE
            /\ UNCHANGED backoffFor
    /\ UNCHANGED <<transport, cancelled, bs, newTr, nLoops, trState, hrPc,
                   nHandleReads, ccConn, dialed, crashed, clPc, clConn, nConnect,
                   connectErr>>
    /\ UNCHANGED callVars

(* ac.ctx is done during the backoff wait: lines 336-339.                  *)
BackoffCancelled(l) ==
    /\ ~crashed
    /\ loopPc[l] = "backoff"
    /\ cancelled
    /\ loopPc' = [loopPc EXCEPT ![l] = "exit"]
    /\ backoffFor' = [backoffFor EXCEPT ![l] = 0]
    /\ UNCHANGED <<state, transport, cancelled, bs, newTr, nLoops,
                   trState, lfr, hrPc, nHandleReads, ccConn, dialed, crashed,
                   clPc, clConn, nConnect, connectErr, readySince>>
    /\ UNCHANGED callVars

(* Mutant: the strategy is not reset after a successful dial.             *)
BackoffOnSuccessKept(b) ==
    b

(* The strategy after a successful dial: line 352.                         *)
BackoffOnSuccess(b) ==
    Reset(b)

(* Mutant: the new transport is adopted whatever the state.                *)
AdoptAlways(st) ==
    TRUE

(* Whether the transport of a successful dial is adopted: line 346.        *)
AdoptAllowed(st) ==
    st # Shutdown

(* After a successful dial: lines 345-356.                                 *)
LoopAdopt(l) ==
    /\ ~crashed
    /\ loopPc[l] = "created"
    /\ IF ~AdoptAllowed(state)
       THEN /\ trState' = CloseTransport(trState, newTr[l])
            /\ loopPc' = [loopPc EXCEPT ![l] = "exit"]
            /\ newTr' = [newTr EXCEPT ![l] = NoTransport]
            /\ UNCHANGED <<state, lfr, transport, bs, readySince>>
       ELSE /\ transport' = newTr[l]
            /\ bs' = BackoffOnSuccess(bs)
            /\ UpdateConnectivityState(Ready)
            /\ loopPc' = [loopPc EXCEPT ![l] = "wait"]
            /\ readySince' = TRUE
            /\ UNCHANGED <<trState, newTr>>
    /\ backoffFor' = [backoffFor EXCEPT ![l] = 0]
    /\ UNCHANGED <<cancelled, nLoops, hrPc, nHandleReads, ccConn, dialed,
                   crashed, clPc, clConn, nConnect, connectErr>>
    /\ UNCHANGED callVars

(* ------------------------------- teardown ----------------------------- *)
(* Mutant: teardown does not close the current transport.                  *)
TeardownTransports(ts, cur) ==
    ts

(* The transports after teardown's curTr.Close(): lines 400-406.           *)
TeardownClose(ts, cur) ==
    IF cur # NoTransport THEN CloseTransport(ts, cur) ELSE ts

(* The body of addrConn.teardown().                                        *)
Teardown ==
    IF state = Shutdown
    THEN UNCHANGED <<state, lfr, transport, cancelled, trState>>
    ELSE /\ UpdateConnectivityState(Shutdown)
         /\ transport' = NoTransport
         /\ cancelled' = TRUE
         /\ trState' = TeardownClose(trState, transport)

(* ClientConn.Close: conn := cc.conn (line 160).                           *)
CloseRead(j) ==
    /\ ~crashed
    /\ dialed
    /\ clPc[j] = "idle"
    /\ clConn' = [clConn EXCEPT ![j] = ccConn]
    /\ clPc' = [clPc EXCEPT ![j] = "detach"]
    /\ UNCHANGED <<state, transport, cancelled, bs, loopPc, backoffFor, newTr,
                   nLoops, trState, lfr, hrPc, nHandleReads, ccConn, dialed,
                   crashed, nConnect, connectErr, readySince>>
    /\ UNCHANGED callVars

(* ClientConn.Close: cc.conn = nil under cc.mu (lines 162-164).            *)
CloseDetach(j) ==
    /\ ~crashed
    /\ clPc[j] = "detach"
    /\ ccMu = NoHolder
    /\ ccConn' = FALSE
    /\ clPc' = [clPc EXCEPT ![j] = "teardown"]
    /\ UNCHANGED <<state, transport, cancelled, bs, loopPc, backoffFor, newTr,
                   nLoops, trState, lfr, hrPc, nHandleReads, dialed, crashed,
                   clConn, nConnect, connectErr, readySince>>
    /\ UNCHANGED callVars

(* ClientConn.Close: conn.teardown() (line 166); conn may be nil.          *)
CloseTeardown(j) ==
    /\ ~crashed
    /\ clPc[j] = "teardown"
    /\ IF clConn[j]
       THEN Teardown /\ UNCHANGED crashed
       ELSE crashed' = TRUE /\ UNCHANGED <<state, lfr, transport, cancelled, trState>>
    /\ clPc' = [clPc EXCEPT ![j] = "done"]
    /\ UNCHANGED <<bs, loopPc, backoffFor, newTr, nLoops, hrPc, nHandleReads,
                   ccConn, dialed, clConn, nConnect, connectErr, readySince>>
    /\ UNCHANGED callVars

(* ----------------------------- listenForRead -------------------------- *)
(* One turn of the loop after the receive: lines 104-113.  The done that   *)
(* is closed is the nil one declared on line 104, so nothing is closed.    *)
ListenForRead ==
    /\ ~crashed
    /\ lfr # "recv"
    /\ IF lfr = Ready
       THEN /\ nHandleReads' = nHandleReads + 1
            /\ hrPc' = [hrPc EXCEPT ![nHandleReads + 1] = "select"]
       ELSE UNCHANGED <<hrPc, nHandleReads>>
    /\ lfr' = "recv"
    /\ UNCHANGED <<state, transport, cancelled, bs, loopPc, backoffFor, newTr,
                   nLoops, trState, ccConn, dialed, crashed, clPc, clConn,
                   nConnect, connectErr, readySince>>
    /\ UNCHANGED callVars

(* ------------------------------ handleRead ---------------------------- *)
(* The select of line 121 evaluates cc.conn.transport.Read().              *)
HrSelect(h) ==
    /\ ~crashed
    /\ hrPc[h] = "select"
    /\ IF ccConn /\ transport # NoTransport
       THEN /\ hrTr' = [hrTr EXCEPT ![h] = transport]
            /\ hrPc' = [hrPc EXCEPT ![h] = "blocked"]
            /\ UNCHANGED crashed
       ELSE /\ crashed' = TRUE
            /\ UNCHANGED <<hrPc, hrTr>>
    /\ UNCHANGED <<connVars, ccConn, ccMu, methodCalls, nextCall, written, inbound,
                   hrMsg, ivPc, ivCall, ivTr, ivResult, ivReply>>

(* A frame arrives on the Read() channel the select waits on: line 122.    *)
HrRecv(h) ==
    /\ ~crashed
    /\ hrPc[h] = "blocked"
    /\ inbound[hrTr[h]] # <<>>
    /\ hrMsg' = [hrMsg EXCEPT ![h] = Head(inbound[hrTr[h]])]
    /\ inbound' = [inbound EXCEPT ![hrTr[h]] = Tail(@)]
    /\ hrPc' = [hrPc EXCEPT ![h] = "response"]
    /\ UNCHANGED <<connVars, ccConn, crashed, ccMu, methodCalls, nextCall, written,
                   hrTr, ivPc, ivCall, ivTr, ivResult, ivReply>>

(* Mutant: the lookup ignores the id and takes any pending entry.          *)
LookupCallAny(calls, id) ==
    IF \E c \in DOMAIN calls : calls[c] # NoChan
    THEN calls[CHOOSE c \in DOMAIN calls : calls[c] # NoChan]
    ELSE NoChan

(* cc.methodCalls[callID]: the channel registered for the id, if any.      *)
LookupCall(calls, id) ==
    IF id \in DOMAIN calls THEN calls[id] ELSE NoChan

(* handleMessageResponse up to the lookup: lines 147-151.  An id with no   *)
(* entry is dropped and the lock released.                                 *)
HrLock(h) ==
    /\ ~crashed
    /\ hrPc[h] = "response"
    /\ ccMu = NoHolder
    /\ IF LookupCall(methodCalls, hrMsg[h]) # NoChan
       THEN /\ ccMu' = h
            /\ hrPc' = [hrPc EXCEPT ![h] = "send"]
            /\ UNCHANGED <<hrMsg, hrTr>>
       ELSE /\ hrPc' = [hrPc EXCEPT ![h] = "select"]
            /\ hrMsg' = [hrMsg EXCEPT ![h] = 0]
            /\ hrTr' = [hrTr EXCEPT ![h] = NoTransport]
            /\ UNCHANGED ccMu
    /\ UNCHANGED <<connVars, ccConn, crashed, methodCalls, nextCall, written,
                   inbound, ivPc, ivCall, ivTr, ivResult, ivReply>>

(* removeMethodCall: delete(cc.methodCalls, id).                           *)
RemoveMethodCall(calls, id) ==
    [calls EXCEPT ![id] = NoChan]

(* call <- payload meets the receive of Invoke's select (lines 152, 206),  *)
(* then the entry is removed and cc.mu released; Invoke returns nil.       *)
HrSend(h, k) ==
    /\ ~crashed
    /\ hrPc[h] = "send"
    /\ ivPc[k] = "select"
    /\ ivCall[k] = LookupCall(methodCalls, hrMsg[h])
    /\ ivReply' = [ivReply EXCEPT ![k] = hrMsg[h]]
    /\ ivResult' = [ivResult EXCEPT ![k] = "nil"]
    /\ ivPc' = [ivPc EXCEPT ![k] = "returned"]
    /\ methodCalls' = RemoveMethodCall(methodCalls, hrMsg[h])
    /\ ccMu' = NoHolder
    /\ hrPc' = [hrPc EXCEPT ![h] = "select"]
    /\ hrMsg' = [hrMsg EXCEPT ![h] = 0]
    /\ hrTr' = [hrTr EXCEPT ![h] = NoTransport]
    /\ ivTr' = [ivTr EXCEPT ![k] = NoTransport]
    /\ UNCHANGED <<connVars, ccConn, crashed, nextCall, written, inbound,
                   ivCall>>

(* --------------------------------- peer ------------------------------- *)
RECURSIVE SumLen(_, _)
SumLen(q, n) ==
    IF n = 0 THEN 0 ELSE Len(q[n]) + SumLen(q, n - 1)

(* Frames sent by the peer and not yet read by a handleRead.               *)
Queued ==
    SumLen(inbound, MaxTransports)

(* The peer sends a Response frame echoing a call_id it was sent; it may   *)
(* answer late, twice, and on a later transport of the same handle.        *)
PeerRespond(t, c) ==
    /\ ~crashed
    /\ trState[t] = "open"
    /\ Queued < MaxQueued
    /\ c \in written
    /\ inbound' = [inbound EXCEPT ![t] = Append(@, c)]
    /\ UNCHANGED <<connVars, hrPc, ccConn, crashed, ccMu, methodCalls, nextCall,
                   written, hrTr, hrMsg, ivPc, ivCall, ivTr, ivResult, ivReply>>

(* -------------------------------- Invoke ------------------------------ *)
(* registerMethodCall: a fresh channel under the id.                       *)
RegisterMethodCall(calls, id) ==
    [calls EXCEPT ![id] = id]

(* Invoke up to the marshalled message: lines 171-196.  marshals says      *)
(* whether args serializes.  The callers are interchangeable: the idle     *)
(* caller of lowest number is the one that calls next.                     *)
InvokeStart(k, marshals) ==
    /\ ~crashed
    /\ dialed
    /\ ivPc[k] = "idle"
    /\ \A k2 \in Callers : k2 < k => ivPc[k2] # "idle"
    /\ IF ~ccConn
       THEN /\ crashed' = TRUE
            /\ UNCHANGED <<ivPc, ivResult>>
       ELSE IF state # Ready
       THEN /\ ivResult' = [ivResult EXCEPT ![k] = "connection is not ready"]
            /\ ivPc' = [ivPc EXCEPT ![k] = "returned"]
            /\ UNCHANGED crashed
       ELSE IF ~marshals
       THEN /\ ivResult' = [ivResult EXCEPT ![k] = "marshal error"]
            /\ ivPc' = [ivPc EXCEPT ![k] = "returned"]
            /\ UNCHANGED crashed
       ELSE /\ nextCall + Cardinality({k2 \in Callers : ivPc[k2] = "register"})
                   < MaxCalls
            /\ ivPc' = [ivPc EXCEPT ![k] = "register"]
            /\ UNCHANGED <<ivResult, crashed>>
    /\ UNCHANGED <<connVars, hrPc, ccConn, ccMu, methodCalls, nextCall, written,
                   inbound, hrTr, hrMsg, ivCall, ivTr, ivReply>>

(* Mutant: call ids are not fresh.                                         *)
ReusedCallId(n) ==
    1

(* uuid.NewString(): an id no earlier call of the handle had; n ids were   *)
(* made before.                                                            *)
NewCallId(n) ==
    n + 1

(* uuid.NewString() and registerMethodCall under cc.mu: lines 182-200.     *)
InvokeRegister(k) ==
    /\ ~crashed
    /\ ivPc[k] = "register"
    /\ ccMu = NoHolder
    /\ nextCall' = nextCall + 1
    /\ ivCall' = [ivCall EXCEPT ![k] = NewCallId(nextCall)]
    /\ methodCalls' = RegisterMethodCall(methodCalls, NewCallId(nextCall))
    /\ ivPc' = [ivPc EXCEPT ![k] = "write"]
    /\ UNCHANGED <<connVars, hrPc, ccConn, crashed, ccMu, written, inbound,
                   hrTr, hrMsg, ivTr, ivResult, ivReply>>

(* cc.conn.transport.Write(msgB): line 202.  The frame reaches the peer   *)
(* if the transport is connected; the error of a failed Write is dropped.  *)
InvokeWrite(k) ==
    /\ ~crashed
    /\ ivPc[k] = "write"
    /\ IF ccConn /\ transport # NoTransport
       THEN /\ written' = IF trState[transport] = "open"
                          THEN written \cup {ivCall[k]}
                          ELSE written
            /\ ivTr' = [ivTr EXCEPT ![k] = transport]
            /\ ivPc' = [ivPc EXCEPT ![k] = "select"]
            /\ UNCHANGED crashed
       ELSE /\ crashed' = TRUE
            /\ UNCHANGED <<written, ivPc, ivTr>>
    /\ UNCHANGED <<connVars, hrPc, ccConn, ccMu, methodCalls, nextCall, inbound,
                   hrTr, hrMsg, ivCall, ivResult, ivReply>>

(* time.After fires and the select takes that case: line 212.              *)
InvokeTimeout(k) ==
    /\ ~crashed
    /\ ivPc[k] = "select"
    /\ ivPc' = [ivPc EXCEPT ![k] = "timeout"]
    /\ ivTr' = [ivTr EXCEPT ![k] = NoTransport]
    /\ UNCHANGED <<connVars, hrPc, ccConn, crashed, ccMu, methodCalls, nextCall,
                   written, inbound, hrTr, hrMsg, ivCall, ivResult, ivReply>>

(* The timeout case: removeMethodCall under cc.mu, lines 214-217.          *)
InvokeDeregister(k) ==
    /\ ~crashed
    /\ ivPc[k] = "timeout"
    /\ ccMu = NoHolder
    /\ methodCalls' = RemoveMethodCall(methodCalls, ivCall[k])
    /\ ivResult' = [ivResult EXCEPT ![k] = "call timeout"]
    /\ ivPc' = [ivPc EXCEPT ![k] = "returned"]
    /\ UNCHANGED <<connVars, hrPc, ccConn, crashed, ccMu, nextCall, written, inbound,
                   hrTr, hrMsg, ivCall, ivTr, ivReply>>

(* The caller has its result and may call Invoke again.                    *)
InvokeReturned(k) ==
    /\ ~crashed
    /\ ivPc[k] = "returned"
    /\ ivPc' = [ivPc EXCEPT ![k] = "idle"]
    /\ ivCall' = [ivCall EXCEPT ![k] = 0]
    /\ UNCHANGED ivTr
    /\ ivResult' = [ivResult EXCEPT ![k] = "none"]
    /\ ivReply' = [ivReply EXCEPT ![k] = 0]
    /\ UNCHANGED <<connVars, hrPc, ccConn, crashed, ccMu, methodCalls, nextCall,
                   written, inbound, hrTr, hrMsg>>

(* ---------------------------- specifications -------------------------- *)
Init ==
    /\ state = Idle
    /\ transport = NoTransport
    /\ cancelled = FALSE
    /\ bs = 0
    /\ loopPc = [l \in Loops |-> "none"]
    /\ backoffFor = [l \in Loops |-> 0]
    /\ newTr = [l \in Loops |-> NoTransport]
    /\ nLoops = 0
    /\ trState = [t \in Transports |-> "none"]
    /\ lfr = "recv"
    /\ hrPc = [h \in HandleReads |-> "none"]
    /\ nHandleReads = 0
    /\ ccConn = TRUE
    /\ dialed = FALSE
    /\ crashed = FALSE
    /\ clPc = [j \in Closers |-> "idle"]
    /\ clConn = [j \in Closers |-> FALSE]
    /\ nConnect = 0
    /\ connectErr = "none"
    /\ readySince = FALSE
    /\ ccMu = NoHolder
    /\ methodCalls = [c \in CallIds |-> NoChan]
    /\ nextCall = 0
    /\ written = {}
    /\ inbound = [t \in Transports |-> <<>>]
    /\ hrTr = [h \in HandleReads |-> NoTransport]
    /\ hrMsg = [h \in HandleReads |-> 0]
    /\ ivPc = [k \in Callers |-> "idle"]
    /\ ivCall = [k \in Callers |-> 0]
    /\ ivTr = [k \in Callers |-> NoTransport]
    /\ ivResult = [k \in Callers |-> "none"]
    /\ ivReply = [k \in Callers |-> 0]

(* The whole client.  connect() is called by Dial alone, as in the source, *)
(* and one task closes the handle.                                         *)
Next ==
    \/ DialConnect
    \/ \E l \in Loops : LoopStart(l)
    \/ \E l \in Loops : LoopRetry(l)
    \/ \E l \in Loops : LoopReconnect(l)
    \/ \E l \in Loops : CreateTransportOk(l)
    \/ \E l \in Loops : LoopDialFailed(l)
    \/ \E l \in Loops : BackoffCancelled(l)
    \/ \E l \in Loops : LoopAdopt(l)
    \/ \E t \in Transports : PeerDrop(t)
    \/ \E t \in Transports : OnClose(t)
    \/ \E j \in {1} : CloseRead(j)
    \/ \E j \in {1} : CloseDetach(j)
    \/ \E j \in {1} : CloseTeardown(j)
    \/ ListenForRead
    \/ \E h \in HandleReads : HrSelect(h)
    \/ \E h \in HandleReads : HrRecv(h)
    \/ \E h \in HandleReads : HrLock(h)
    \/ \E h \in HandleReads, k \in Callers : HrSend(h, k)
    \/ \E t \in Transports, c \in CallIds : PeerRespond(t, c)
    \/ \E k \in Callers, marshals \in BOOLEAN : InvokeStart(k, marshals)
    \/ \E k \in Callers : InvokeRegister(k)
    \/ \E k \in Callers : InvokeWrite(k)
    \/ \E k \in Callers : InvokeTimeout(k)
    \/ \E k \in Callers : InvokeDeregister(k)
    \/ \E k \in Callers : InvokeReturned(k)

Spec ==
    Init /\ [][Next]_vars

(* Fair scheduling of the goroutines of a call and of its dispatch, and a  *)
(* timer that fires: a step of Invoke after its Ready check, of handleRead *)
(* or of listenForRead that stays possible is taken.  Nothing is assumed   *)
(* of the peer, the network or the application.                            *)
Fairness ==
    /\ \A k \in Callers :
          /\ WF_vars(InvokeRegister(k))
          /\ WF_vars(InvokeWrite(k))
          /\ WF_vars(InvokeTimeout(k))
          /\ WF_vars(InvokeDeregister(k))
    /\ \A h \in HandleReads :
          /\ WF_vars(HrSelect(h))
          /\ WF_vars(HrRecv(h))
          /\ WF_vars(HrLock(h))
          /\ \A k \in Callers : WF_vars(HrSend(h, k))
    /\ WF_vars(ListenForRead)

FairSpec ==
    Spec /\ Fairness

(* The connection alone (no Invoke is made), with Close called             *)
(* concurrently by all Closers.                                            *)
NextConn ==
    \/ DialConnect
    \/ \E l \in Loops : LoopStart(l)
    \/ \E l \in Loops : LoopRetry(l)
    \/ \E l \in Loops : LoopReconnect(l)
    \/ \E l \in Loops : CreateTransportOk(l)
    \/ \E l \in Loops : LoopDialFailed(l)
    \/ \E l \in Loops : BackoffCancelled(l)
    \/ \E l \in Loops : LoopAdopt(l)
    \/ \E t \in Transports : PeerDrop(t)
    \/ \E t \in Transports : OnClose(t)
    \/ \E j \in Closers : CloseRead(j)
    \/ \E j \in Closers : CloseDetach(j)
    \/ \E j \in Closers : CloseTeardown(j)
    \/ ListenForRead
    \/ \E h \in HandleReads : HrSelect(h)

SpecConn ==
    Init /\ [][NextConn]_vars

(* A step of a resetTransport goroutine.                                   *)
LoopStep ==
    \E l \in Loops :
        \/ LoopStart(l)
        \/ LoopRetry(l)
        \/ LoopReconnect(l)
        \/ CreateTransportOk(l)
        \/ LoopDialFailed(l)
        \/ BackoffCancelled(l)
        \/ LoopAdopt(l)

(* A close callback runs.                                                  *)
CloseCallback ==
    \E t \in Transports : OnClose(t)

(* A Close call runs teardown.                                             *)
TeardownStep ==
    \E j \in Closers : CloseTeardown(j)

(* Scheduling of the connection's goroutines.  A retry loop, a close       *)
(* callback and the subscriber take a step that stays possible: a dial     *)
(* returns, a timer fires, a goroutine is scheduled.  teardown, which      *)
(* competes for ac.mu and for the subscriber with the retry loop, gets     *)
(* its turn when that is possible again and again (sync.Mutex hands the    *)
(* lock to a waiter that has starved).  Nothing is assumed of the peer.    *)
FairnessConn ==
    /\ WF_vars(LoopStep)
    /\ WF_vars(CloseCallback)
    /\ WF_vars(ListenForRead)
    /\ SF_vars(TeardownStep)

FairConn ==
    SpecConn /\ FairnessConn

(* The connection with connect() also called again at any moment.          *)
NextApi ==
    \/ DialConnect
    \/ \E l \in Loops : LoopStart(l)
    \/ \E l \in Loops : LoopRetry(l)
    \/ \E l \in Loops : LoopReconnect(l)
    \/ \E l \in Loops : CreateTransportOk(l)
    \/ \E l \in Loops : LoopDialFailed(l)
    \/ \E l \in Loops : BackoffCancelled(l)
    \/ \E l \in Loops : LoopAdopt(l)
    \/ \E t \in Transports : PeerDrop(t)
    \/ \E t \in Transports : OnClose(t)
    \/ \E j \in Closers : CloseRead(j)
    \/ \E j \in Closers : CloseDetach(j)
    \/ \E j \in Closers : CloseTeardown(j)
    \/ ListenForRead
    \/ \E h \in HandleReads : HrSelect(h)
    \/ ConnectAgain

SpecApi ==
    Init /\ [][NextApi]_vars

(* ================================ claims ============================== *)
(* The caller whose Invoke waits on channel ch.                            *)
Receivers(ch) ==
    {k \in Callers : ivCall[k] = ch}

(* C1: of the delivery and the timeout of a call, the loser has no         *)
(* observable effect; in particular the dispatch loop never blocks: when   *)
(* handleMessageResponse is in its send, holding cc.mu, the Invoke that    *)
(* owns the channel has not taken its timeout case and will receive.       *)
C1_LoserHasNoEffect ==
    \A h \in HandleReads :
        hrPc[h] = "send" =>
            \E k \in Receivers(LookupCall(methodCalls, hrMsg[h])) :
                ivPc[k] \in {"write", "select"}

(* C2: every Invoke that got past its Ready check eventually returns (or  *)
(* the process has terminated): a pending call whose response does not     *)
(* arrive, or arrives together with its timeout, times out.                *)
C2_InvokeReturns ==
    \A k \in Callers :
        (ivPc[k] \in {"register", "write", "select", "timeout"})
            ~> (ivPc[k] = "returned" \/ crashed)

(* C3: a payload is received only by the Invoke that registered the call   *)
(* id of the payload's frame, from the entry that Invoke registered, and   *)
(* the entry is consumed by the delivery (so at most once); no other       *)
(* caller is touched by it.                                                *)
C3_DeliveredToRegistrant ==
    [][\A k \in Callers :
          (ivPc[k] = "select" /\ ivPc'[k] = "returned" /\ ivResult'[k] = "nil") =>
              /\ ivReply'[k] = ivCall[k]
              /\ methodCalls[ivCall[k]] = ivCall[k]
              /\ methodCalls'[ivCall[k]] = NoChan
              /\ \A k2 \in Callers \ {k} :
                    /\ ivPc'[k2] = ivPc[k2]
                    /\ ivReply'[k2] = ivReply[k2]
                    /\ ivCall[k2] # ivCall[k]]_vars

(* C3 witness: two calls in flight under distinct ids, one of them has     *)
(* received its payload while the other still waits.                       *)
C3_Witness ==
    \E k1, k2 \in Callers :
        /\ k1 # k2
        /\ ivPc[k1] = "returned" /\ ivResult[k1] = "nil" /\ ivReply[k1] = ivCall[k1]
        /\ ivPc[k2] = "select"
        /\ methodCalls[ivCall[k2]] # NoChan

(* C4: an Invoke issued while the state is not Ready returns the not-ready *)
(* error at once, writes no frame and leaves the pending-call table        *)
(* unchanged.                                                              *)
C4_NotReadyReturnsError ==
    [][\A k \in Callers, m \in BOOLEAN :
          (InvokeStart(k, m) /\ state # Ready) =>
              /\ ~crashed'
              /\ ivPc'[k] = "returned"
              /\ ivResult'[k] = "connection is not ready"
              /\ UNCHANGED <<written, methodCalls>>]_vars

(* A state is sent on stateCh in this step.                                *)
Published ==
    lfr = "recv" /\ lfr' # "recv"

(* Everything the connection consists of, but the bookkeeping of who       *)
(* called what.                                                            *)
acVars == <<state, transport, cancelled, bs, loopPc, backoffFor, newTr, nLoops,
            trState, lfr, hrPc, nHandleReads>>

(* C5: Shutdown is terminal: once the state is Shutdown no step changes it *)
(* and no state is published any more.                                     *)
C5_ShutdownTerminal ==
    [][state = Shutdown => (state' = Shutdown /\ ~Published)]_vars

(* C5 witness: after teardown, connect() was refused, both Close calls     *)
(* ran teardown, a retry loop has left and a close callback has run.       *)
C5_Witness ==
    /\ state = Shutdown
    /\ ~crashed
    /\ connectErr = "errConnClosing"
    /\ \A j \in Closers : clPc[j] = "done"
    /\ \E l \in Loops : loopPc[l] = "exit"
    /\ \E t \in Transports : trState[t] = "done"

(* C6: while dials fail the state alternates Connecting ->                 *)
(* TransientFailure -> Connecting; Ready is entered only by the step that  *)
(* adopts the transport of a successful dial; Shutdown is entered only by  *)
(* teardown.                                                               *)
C6_DialFailuresAlternate ==
    [][/\ \A l \in Loops :
             (loopPc[l] = "dial" /\ loopPc'[l] = "backoff") =>
                 (state = Connecting /\ state' = TransientFailure)
       /\ (state = TransientFailure /\ state' # state) =>
              state' \in {Connecting, Shutdown}
       /\ (state = Connecting /\ state' # state) =>
              state' \in {TransientFailure, Ready, Shutdown}
       /\ (state # Ready /\ state' = Ready) =>
              \E l \in Loops : /\ loopPc[l] = "created"
                               /\ loopPc'[l] = "wait"
                               /\ transport' = newTr[l]
       /\ (state # Shutdown /\ state' = Shutdown) =>
              \E j \in Closers : clPc[j] = "teardown" /\ clPc'[j] = "done"]_vars

(* C6 witness: a second dial in a row has failed.                          *)
C6_Witness ==
    /\ state = TransientFailure
    /\ bs >= 2
    /\ NumCreated = 0

(* C7 as stated: the state that follows Ready, when the transport closes   *)
(* without teardown, is Connecting.                                        *)
C7_ReadyThenConnecting ==
    [][(state = Ready /\ state' # Ready /\ state' # Shutdown) =>
           state' = Connecting]_vars

(* C7 amended: when the transport of a Ready connection closes, the close  *)
(* callback takes the state to Idle, publishes it and releases the retry   *)
(* loop, which waits for that transport; the state that follows Idle is    *)
(* Connecting (or Shutdown, by teardown), set by the retry loop as it      *)
(* starts a new dial, with no call of connect().                           *)
C7_ReadyIdleConnecting ==
    [][/\ \A t \in Transports :
             (state = Ready /\ trState[t] = "closed" /\ trState'[t] = "done") =>
                 /\ state' = Idle
                 /\ lfr' = Idle
                 /\ t = transport
                 /\ \E l \in Loops : loopPc'[l] = "wait" /\ newTr'[l] = t
       /\ (state = Ready /\ state' # state) =>
              state' \in {Idle, Connecting, Shutdown}
       /\ (dialed /\ state = Idle /\ state' # state) =>
              \/ state' = Shutdown
              \/ /\ state' = Connecting
                 /\ nConnect' = nConnect
                 /\ \E l \in Loops : loopPc[l] = "wait" /\ loopPc'[l] = "dial"]_vars

(* C7 witness: the transport of a Ready connection has closed, the state   *)
(* is Idle and the retry loop is free to go round.                         *)
C7_Witness ==
    /\ state = Idle
    /\ dialed
    /\ transport # NoTransport
    /\ trState[transport] = "done"
    /\ \E l \in Loops : loopPc[l] = "wait" /\ newTr[l] = transport

(* C8: each turn of the loop draws one delay; a successful dial resets the *)
(* strategy; the first backoff wait after a successful dial lasts the      *)
(* initial delay.                                                          *)
C8_BackoffReset ==
    [][\A l \in Loops :
          /\ (loopPc[l] # "dial" /\ loopPc'[l] = "dial") =>
                 (backoffFor'[l] = Delay(bs) /\ bs' = NextBackOff(bs))
          /\ (loopPc[l] = "created" /\ loopPc'[l] = "wait") => bs' = 0
          /\ (loopPc[l] = "dial" /\ loopPc'[l] = "backoff" /\ readySince) =>
                 backoffFor[l] = InitialDelay]_vars

(* C8 witness: the retry loop waits after the first failed dial that       *)
(* follows a successful one.                                               *)
C8_Witness ==
    \E l \in Loops :
        /\ loopPc[l] = "backoff"
        /\ backoffFor[l] = InitialDelay
        /\ bs = 1
        /\ ~readySince
        /\ \E t \in Transports : trState[t] = "done"

(* C9: connect() in Connecting, Ready or TransientFailure returns nil and  *)
(* changes nothing; in Shutdown it returns errConnClosing and changes      *)
(* nothing; in Idle it sets Connecting and starts the retry loop.          *)
C9_ConnectIdempotent ==
    [][(nConnect' # nConnect) =>
          /\ (state \in {Connecting, Ready, TransientFailure}) =>
                 (connectErr' = "nil" /\ UNCHANGED acVars)
          /\ (state = Shutdown) =>
                 (connectErr' = "errConnClosing" /\ UNCHANGED acVars)
          /\ (state = Idle) =>
                 /\ connectErr' = "nil"
                 /\ state' = Connecting
                 /\ nLoops' = nLoops + 1
                 /\ loopPc' = [loopPc EXCEPT ![nLoops + 1] = "top"]
                 /\ UNCHANGED <<transport, bs, trState, cancelled>>]_vars

(* C9 witness: connect() was called again on a Ready connection and        *)
(* started nothing.                                                        *)
C9_Witness ==
    /\ state = Ready
    /\ nConnect = 2
    /\ nLoops = 1
    /\ connectErr = "nil"
    /\ \E l \in Loops : loopPc[l] = "wait"

(* C10: teardown() in a state other than Shutdown sets Shutdown, clears    *)
(* the transport reference, closes the transport that was current and      *)
(* cancels the context; in Shutdown it changes and publishes nothing.      *)
C10_Teardown ==
    [][\A j \in Closers :
          (clPc[j] = "teardown" /\ clPc'[j] = "done" /\ clConn[j]) =>
              IF state # Shutdown
              THEN /\ state' = Shutdown
                   /\ lfr' = Shutdown
                   /\ transport' = NoTransport
                   /\ cancelled'
                   /\ \A t \in Transports :
                         trState'[t] = IF t = transport /\ trState[t] = "open"
                                       THEN "closed"
                                       ELSE trState[t]
              ELSE /\ UNCHANGED acVars
                   /\ ~Published]_vars

(* C10 witness: two Close calls have both run teardown, the first on a     *)
(* connection with an open transport.                                      *)
C10_Witness ==
    /\ state = Shutdown
    /\ ~crashed
    /\ \A j \in Closers : clPc[j] = "done" /\ clConn[j]
    /\ \E t \in Transports : trState[t] = "closed"
    /\ \E l \in Loops : loopPc[l] = "wait"

(* C11: Close is idempotent: a Close call, the first or a later one,      *)
(* sequential or concurrent, completes its teardown step safely (the       *)
(* process does not panic) and a later one changes nothing.                *)
C11_CloseIdempotent ==
    [][\A j \in Closers :
          (clPc[j] = "teardown" /\ clPc'[j] = "done") =>
              /\ ~crashed'
              /\ (\E j2 \in Closers : clPc[j2] = "done") => UNCHANGED acVars]_vars

(* C12: an Invoke issued after Close has returned gets an error value:    *)
(* the process does not crash, no frame is written and no call is          *)
(* registered.                                                             *)
C12_InvokeAfterClose ==
    [][\A k \in Callers, m \in BOOLEAN :
          (InvokeStart(k, m) /\ \E j \in Closers : clPc[j] = "done") =>
              /\ ~crashed'
              /\ ivPc'[k] = "returned"
              /\ ivResult'[k] \notin {"nil", "none"}
              /\ UNCHANGED <<written, methodCalls, nextCall>>]_vars

(* The call ids carried by frames that were sent and not yet dealt with.   *)
FramesInFlight ==
    UNION {{inbound[t][i] : i \in 1..Len(inbound[t])} : t \in Transports}
        \cup {hrMsg[h] : h \in {h2 \in HandleReads : hrPc[h2] \in {"response", "send"}}}

(* C13: a Response frame whose call_id has no pending entry is dropped:    *)
(* the step that handles it changes neither the pending-call table nor any *)
(* caller, holds no lock afterwards and takes the dispatch loop back to    *)
(* its select; and a call is registered under an id that no frame, written *)
(* or received, ever carried, so a late response meets no later call.      *)
C13_UnmatchedDiscarded ==
    [][/\ \A h \in HandleReads :
             (/\ hrPc[h] = "response"
              /\ hrPc'[h] # "response"
              /\ methodCalls[hrMsg[h]] = NoChan) =>
                 /\ hrPc'[h] = "select"
                 /\ ~crashed'
                 /\ ccMu' = NoHolder
                 /\ UNCHANGED <<methodCalls, ivPc, ivCall, ivResult, ivReply,
                                inbound, written>>
       /\ \A k \in Callers :
             (ivPc[k] = "register" /\ ivPc'[k] = "write") =>
                 /\ ivCall'[k] \notin written
                 /\ ivCall'[k] \notin FramesInFlight
                 /\ methodCalls[ivCall'[k]] = NoChan]_vars

(* C13 witness: the dispatch loop has in hand the late response of a call  *)
(* that has timed out and was deregistered, while a later call is pending. *)
C13_Witness ==
    \E h \in HandleReads, k1, k2 \in Callers :
        /\ hrPc[h] = "response"
        /\ methodCalls[hrMsg[h]] = NoChan
        /\ ivCall[k1] = hrMsg[h]
        /\ ivPc[k1] = "returned"
        /\ ivResult[k1] = "call timeout"
        /\ ivPc[k2] = "select"
        /\ ivCall[k2] > ivCall[k1]
        /\ methodCalls[ivCall[k2]] # NoChan

(* C14: the current-transport reference is nil whenever the state is not   *)
(* Ready.                                                                  *)
C14_TransportOnlyWhenReady ==
    transport # NoTransport => state = Ready

(* The handleRead goroutines that were started and have not returned.      *)
LiveHandleReads ==
    {h \in HandleReads : hrPc[h] # "none"}

(* C15: at most one read-dispatch task is alive, and none once the         *)
(* subscriber has observed that the connection is not Ready.               *)
C15_OneDispatchTask ==
    /\ Cardinality(LiveHandleReads) <= 1
    /\ (state # Ready /\ lfr = "recv") => LiveHandleReads = {}

(* The resetTransport goroutines that were started and have not returned.  *)
LiveLoops ==
    {l \in Loops : loopPc[l] \notin {"none", "exit"}}

(* C16: at most one retry loop is alive per connection.                    *)
C16_OneRetryLoop ==
    Cardinality(LiveLoops) <= 1

(* After teardown the only transports still open are those of a dial that  *)
(* has just returned to a retry loop which has not yet looked at the       *)
(* state.                                                                  *)
NoTransportLeftOpen ==
    state = Shutdown =>
        \A t \in Transports :
            trState[t] = "open" =>
                \E l \in Loops : loopPc[l] = "created" /\ newTr[l] = t

(* C17: when a dial succeeds after teardown, the retry loop closes the new *)
(* transport at once and exits: the transport is not adopted, the state    *)
(* stays Shutdown, nothing is published and the backoff strategy is not    *)
(* reset; no other transport is left open after teardown.                  *)
C17_ShutdownDuringDial ==
    [][/\ \A l \in Loops :
             (loopPc[l] = "created" /\ loopPc'[l] # "created" /\ state = Shutdown) =>
                 /\ loopPc'[l] = "exit"
                 /\ trState'[newTr[l]] # "open"
                 /\ transport' = NoTransport
                 /\ state' = Shutdown
                 /\ bs' = bs
                 /\ ~Published
       /\ NoTransportLeftOpen']_vars

(* C17 witness: the only transport ever created was closed without having  *)
(* been adopted, after teardown, and the retry loop has exited.            *)
C17_Witness ==
    /\ state = Shutdown
    /\ transport = NoTransport
    /\ NumCreated = 1
    /\ trState[1] \in {"closed", "done"}
    /\ ~readySince
    /\ bs = 1
    /\ \E l \in Loops : loopPc[l] = "exit"
    /\ ~crashed

C19_NoStaleDelivery ==
    [][\A h \in HandleReads, k \in Callers :
          (/\ hrPc[h] = "send" /\ hrPc'[h] = "select"
           /\ ivPc[k] = "select" /\ ivPc'[k] = "returned") =>
              hrTr[h] = ivTr[k]]_vars

(* C20: Invoke's write step and handleRead's evaluation of the current     *)
(* transport's inbound stream never use a nil Connection or a nil          *)
(* transport: neither step ends in a nil dereference.                      *)
C20_NoNilUse ==
    [][((\E k \in Callers : InvokeWrite(k)) \/ (\E h \in HandleReads : HrSelect(h)))
           => ~crashed']_vars

====
